---- MODULE Spec2Model ----
(***************************************************************************)
(* Model of the font face cache of src/src/FontCache.cc: FontCache's       *)
(* constructor, get_font, find_face, find_face_fontconfig, check_cleanup   *)
(* and clear.                                                              *)
(*                                                                         *)
(* Strings are sequences of one-character strings, so that trimming and    *)
(* std::string's ordering are computed, not assumed.  A loaded face is a   *)
(* record whose id is its identity (one id per std::make_shared).          *)
(* time(nullptr) is the variable now; it never decreases and moves only    *)
(* by the action Tick, so several calls can fall into one clock tick.      *)
(*                                                                         *)
(* Spec is the cache under sequential calls.  SpecCharmap adds the charmap *)
(* selection of find_face_fontconfig, try_charmap and                      *)
(* is_windows_symbol_font; SpecOwn the owners of every FontFacePtr;        *)
(* SpecRace two threads whose get_font calls interleave; SpecFontInfo      *)
(* FontInfo::operator<.                                                    *)
(***************************************************************************)
EXTENDS Integers, Sequences, FiniteSets, TLC

\* ------------------------------------------------------------------ bounds
MaxTime  == 3   \* last value of the clock
MaxFaces == 4   \* faces loaded in one behaviour
MaxCharmaps == 2   \* charmaps of a font file

\* --------------------------------------------------------------- constants
MAX_NR_OF_CACHE_ENTRIES == 3

DEFAULT_FONT ==
  << "L", "i", "b", "e", "r", "a", "t", "i", "o", "n", " ", "S", "a", "n",
     "s", ":", "s", "t", "y", "l", "e", "=", "R", "e", "g", "u", "l", "a", "r" >>

Null == "null"

NullFace == [id |-> 0, query |-> << >>]

NoKey == << "\n" >>

\* ----------------------------------------------------------------- strings
\* The character codes std::string compares by.
Code(c) ==
  CASE c = "\t" -> 9   [] c = "\n" -> 10  [] c = " " -> 32  [] c = ":" -> 58
    [] c = "=" -> 61   [] c = "L" -> 76   [] c = "R" -> 82  [] c = "S" -> 83
    [] c = "a" -> 97   [] c = "b" -> 98   [] c = "e" -> 101 [] c = "g" -> 103
    [] c = "i" -> 105  [] c = "l" -> 108  [] c = "n" -> 110 [] c = "o" -> 111
    [] c = "r" -> 114  [] c = "s" -> 115  [] c = "t" -> 116 [] c = "u" -> 117
    [] c = "y" -> 121

\* std::less<std::string>, the order of the cache's keys.
RECURSIVE KeyLess(_, _)
KeyLess(a, b) ==
  IF b = << >> THEN FALSE
  ELSE IF a = << >> THEN TRUE
  ELSE IF Code(Head(a)) < Code(Head(b)) THEN TRUE
  ELSE IF Code(Head(a)) > Code(Head(b)) THEN FALSE
  ELSE KeyLess(Tail(a), Tail(b))

\* boost::is_space in the classic locale.
IsSpace(c) == c \in {" ", "\t", "\n", "\r", "\f"}

RECURSIVE TrimLeft(_)
TrimLeft(s) ==
  IF s = << >> THEN s
  ELSE IF IsSpace(Head(s)) THEN TrimLeft(Tail(s)) ELSE s

RECURSIVE TrimRight(_)
TrimRight(s) ==
  IF s = << >> THEN s
  ELSE IF IsSpace(s[Len(s)]) THEN TrimRight(SubSeq(s, 1, Len(s) - 1)) ELSE s

\* boost::algorithm::trim
Trim(s) == TrimRight(TrimLeft(s))

\* ------------------------------------------------------------------ inputs
RECURSIVE Spaces(_)
Spaces(n) == IF n = 0 THEN << >> ELSE << " " >> \o Spaces(n - 1)

\* q with n blanks before it and n after it.
Pad(n, q) == Spaces(n) \o q \o Spaces(n)

\* The query strings the calls are made with.
Queries == { << >>, Pad(1, << >>), DEFAULT_FONT, Pad(2, DEFAULT_FONT) }

\* What the matching engine and the outline engine answer to one resolution.
Outcomes == { "unparseable", "no_match", "unloadable", "loaded" }

\* ------------------------------------------------------------------- state
VARIABLES
  init_ok,      \* FontCache::init_ok
  config,       \* FontCache::config, Null when FcInitLoadConfig failed
  library,      \* FontCache::library, Null when FT_Init_FreeType failed
  cache,        \* FontCache::cache, its entries in iteration (key) order
  now,          \* what time(nullptr) returns
  nextFace,     \* number of faces loaded so far
  last,         \* the latest call: its argument, its result, the cache before it
  accessOrder,  \* history: the cached keys, least recently accessed first
  inserted,     \* history: the insertions since the cache was last empty,
                \* counted up to MAX_NR_OF_CACHE_ENTRIES + 1
  reaccess,     \* history: a re-access of the oldest entry of a full cache
  fontfile,     \* the font file the matching engine answers with: its charmaps
  sel,          \* the charmap selection made for the face loaded last
  cmp,          \* two FontInfo values and the results of comparing them
  heap,         \* the use count of every FontFace, and the FontFaces destroyed
  handles,      \* the FontFacePtrs callers of get_font hold
  thread,       \* every thread's position in get_font and its locals
  atomic        \* whether a call of get_font runs without another one interleaved

vars == << init_ok, config, library, cache, now, nextFace, last, accessOrder,
           inserted, reaccess, fontfile, sel, cmp, heap, handles, thread,
           atomic >>

\* The cache and its history.
cachevars == << init_ok, config, library, cache, now, nextFace, last,
                accessOrder, inserted, reaccess >>

\* What the cache's own operations never touch.
extra == << fontfile, sel, cmp, heap, handles, thread, atomic >>

charmapvars == << fontfile, sel >>
ownvars == << heap, handles >>
racevars == << thread, atomic >>

\* ------------------------------------------------------------- constructor
\* FontCache::FontCache: fcOk and ftOk say whether FcInitLoadConfig and
\* FT_Init_FreeType succeed.
FontCacheCtor(fcOk, ftOk) ==
  LET cfg == IF fcOk THEN "config" ELSE Null
      lib == IF ftOk THEN "library" ELSE Null
  IN  IF cfg = Null
        THEN [init_ok |-> FALSE, config |-> Null, library |-> Null]
        ELSE IF lib = Null
          THEN [init_ok |-> FALSE, config |-> cfg, library |-> Null]
          ELSE [init_ok |-> TRUE, config |-> cfg, library |-> lib]

\* FontCache::is_init_ok
is_init_ok == init_ok

\* ---------------------------------------------------------------- resolver
\* FT_New_Face's error: set when the library handle is invalid or the file
\* cannot be loaded.
FT_New_Face(lib, outcome) == lib = Null \/ outcome = "unloadable"

\* Variant of find_face_fontconfig that does not test FT_New_Face's error.
find_face_fontconfig_noerror(font, outcome, lib, id) ==
  IF outcome = "unparseable" THEN NullFace
  ELSE IF outcome = "no_match" THEN NullFace
  ELSE IF outcome = "unloadable" THEN NullFace
  ELSE [id |-> id, query |-> font]

\* FontCache::find_face_fontconfig: the face loaded for font, or NullFace.
find_face_fontconfig(font, outcome, lib, id) ==
  IF outcome = "unparseable" THEN NullFace
  ELSE IF outcome = "no_match" THEN NullFace
  ELSE IF FT_New_Face(lib, outcome) THEN NullFace
  ELSE [id |-> id, query |-> font]

\* The string FontCache::find_face hands to find_face_fontconfig.
Lookup(font) ==
  LET trimmed == Trim(font)
  IN  IF trimmed = << >> THEN DEFAULT_FONT ELSE trimmed

\* FontCache::find_face
find_face(font, outcome, lib, id) ==
  find_face_fontconfig(Lookup(font), outcome, lib, id)

\* ------------------------------------------------------------------- cache
Keys(c) == { c[i].key : i \in 1..Len(c) }

\* cache.find(font): the entry's position, 0 for cache.end().
CacheFind(c, font) ==
  IF \E i \in 1..Len(c) : c[i].key = font
    THEN CHOOSE i \in 1..Len(c) : c[i].key = font
    ELSE 0

\* cache.erase(pos)
Erase(c, pos) == SubSeq(c, 1, pos - 1) \o SubSeq(c, pos + 1, Len(c))

\* cache[font] = cache_entry_t(face, t): overwrite the entry of font, or insert
\* one at its place in key order.
CacheAssign(c, font, face, t) ==
  LET it == CacheFind(c, font)
      e  == [key |-> font, face |-> face, ts |-> t]
      n  == Cardinality({ i \in 1..Len(c) : KeyLess(c[i].key, font) })
  IN  IF it # 0
        THEN [c EXCEPT ![it] = e]
        ELSE SubSeq(c, 1, n) \o << e >> \o SubSeq(c, n + 1, Len(c))

\* Variant of the loop of check_cleanup with the comparison turned round.
RECURSIVE ScanMin_newest(_, _, _)
ScanMin_newest(c, pos, it) ==
  IF it > Len(c) THEN pos
  ELSE ScanMin_newest(c, IF c[pos].ts < c[it].ts THEN it ELSE pos, it + 1)

\* Variant of the loop of check_cleanup that moves on to an equal timestamp.
RECURSIVE ScanMin_lasttie(_, _, _)
ScanMin_lasttie(c, pos, it) ==
  IF it > Len(c) THEN pos
  ELSE ScanMin_lasttie(c, IF c[pos].ts >= c[it].ts THEN it ELSE pos, it + 1)

\* The loop of check_cleanup: pos after the iterator went from it to the end.
RECURSIVE ScanMin(_, _, _)
ScanMin(c, pos, it) ==
  IF it > Len(c) THEN pos
  ELSE ScanMin(c, IF c[pos].ts > c[it].ts THEN it ELSE pos, it + 1)

\* Variant of check_cleanup that lets the cache grow one entry too far.
check_cleanup_offbyone(c) ==
  IF Len(c) <= MAX_NR_OF_CACHE_ENTRIES THEN c
  ELSE Erase(c, ScanMin(c, 1, 1))

\* Variant of check_cleanup that erases cache.begin() without scanning.
check_cleanup_first(c) ==
  IF Len(c) < MAX_NR_OF_CACHE_ENTRIES THEN c
  ELSE Erase(c, 1)

\* FontCache::check_cleanup
check_cleanup(c) ==
  IF Len(c) < MAX_NR_OF_CACHE_ENTRIES THEN c
  ELSE Erase(c, ScanMin(c, 1, 1))

\* Variant of get_font whose hit leaves the entry's timestamp as it was.
get_font_result_norefresh(c, font, outcome, lib, t, id) ==
  LET it == CacheFind(c, font)
  IN  IF it = 0
        THEN LET face == find_face(font, outcome, lib, id)
             IN  IF face = NullFace
                   THEN [cache |-> c, ret |-> NullFace, resolved |-> TRUE]
                   ELSE [cache |-> CacheAssign(check_cleanup(c), font, face, t),
                         ret |-> face, resolved |-> TRUE]
        ELSE [cache |-> c, ret |-> c[it].face, resolved |-> FALSE]

\* Variant of get_font without the early return for a font that is not found.
get_font_result_cachenull(c, font, outcome, lib, t, id) ==
  LET it == CacheFind(c, font)
  IN  IF it = 0
        THEN LET face == find_face(font, outcome, lib, id)
             IN  [cache |-> CacheAssign(check_cleanup(c), font, face, t),
                  ret |-> face, resolved |-> TRUE]
        ELSE [cache |-> CacheAssign(c, font, c[it].face, t),
              ret |-> c[it].face, resolved |-> FALSE]

\* Variant of get_font that resolves the font on a hit as well.
get_font_result_reresolve(c, font, outcome, lib, t, id) ==
  LET it   == CacheFind(c, font)
      face == find_face(font, outcome, lib, id)
  IN  IF face = NullFace
        THEN [cache |-> c, ret |-> NullFace, resolved |-> TRUE]
        ELSE [cache |-> CacheAssign(IF it = 0 THEN check_cleanup(c) ELSE c,
                                    font, face, t),
              ret |-> face, resolved |-> TRUE]

\* Variant of get_font that calls check_cleanup after the insertion.
get_font_result_cleanupafter(c, font, outcome, lib, t, id) ==
  LET it == CacheFind(c, font)
  IN  IF it = 0
        THEN LET face == find_face(font, outcome, lib, id)
             IN  IF face = NullFace
                   THEN [cache |-> c, ret |-> NullFace, resolved |-> TRUE]
                   ELSE [cache |-> check_cleanup(CacheAssign(c, font, face, t)),
                         ret |-> face, resolved |-> TRUE]
        ELSE [cache |-> CacheAssign(c, font, c[it].face, t),
              ret |-> c[it].face, resolved |-> FALSE]

\* Variant of get_font whose hit stamps every entry with the time of the call.
get_font_result_touchall(c, font, outcome, lib, t, id) ==
  LET it == CacheFind(c, font)
  IN  IF it = 0
        THEN LET face == find_face(font, outcome, lib, id)
             IN  IF face = NullFace
                   THEN [cache |-> c, ret |-> NullFace, resolved |-> TRUE]
                   ELSE [cache |-> CacheAssign(check_cleanup(c), font, face, t),
                         ret |-> face, resolved |-> TRUE]
        ELSE [cache |-> [i \in 1..Len(c) |-> [c[i] EXCEPT !.ts = t]],
              ret |-> c[it].face, resolved |-> FALSE]

\* FontCache::get_font, given the face find_face returns when it is called.
get_font_core(c, font, face, t) ==
  LET it == CacheFind(c, font)
  IN  IF it = 0
        THEN IF face = NullFace
               THEN [cache |-> c, ret |-> NullFace, resolved |-> TRUE]
               ELSE [cache |-> CacheAssign(check_cleanup(c), font, face, t),
                     ret |-> face, resolved |-> TRUE]
        ELSE [cache |-> CacheAssign(c, font, c[it].face, t),
              ret |-> c[it].face, resolved |-> FALSE]

\* FontCache::get_font: the cache after the call, the face returned, and
\* whether find_face was called.
get_font_result(c, font, outcome, lib, t, id) ==
  get_font_core(c, font, find_face(font, outcome, lib, id), t)

\* Variant of clear that erases cache.begin() only.
clear_result_first(c) == IF c = << >> THEN c ELSE Tail(c)

\* FontCache::clear
clear_result(c) == << >>

\* ---------------------------------------------------------------- FontInfo
\* Variant of FontInfo::operator< that compares (family, style, file) as a
\* tuple.
FontInfoLess_lexicographic(lhs, rhs) ==
  IF KeyLess(lhs.family, rhs.family) THEN TRUE
  ELSE IF KeyLess(rhs.family, lhs.family) THEN FALSE
  ELSE IF KeyLess(lhs.style, rhs.style) THEN TRUE
  ELSE IF KeyLess(rhs.style, lhs.style) THEN FALSE
  ELSE KeyLess(lhs.file, rhs.file)

\* FontInfo::operator<
FontInfoLess(lhs, rhs) ==
  IF KeyLess(lhs.family, rhs.family) THEN TRUE
  ELSE IF KeyLess(lhs.style, rhs.style) THEN TRUE
  ELSE KeyLess(lhs.file, rhs.file)

\* The FontInfo values compared: every field is one of three strings.
FontInfos ==
  [family : { << >>, << "L" >>, << "S", "a" >> },
   style : { << >>, << "R" >>, << "b" >> },
   file : { << >>, << "a" >>, << "a", "b" >> }]

\* ---------------------------------------------------------------- charmaps
TT_PLATFORM_APPLE_UNICODE == 0
TT_PLATFORM_MACINTOSH     == 1
TT_PLATFORM_ISO           == 2
TT_PLATFORM_MICROSOFT     == 3
TT_MS_ID_SYMBOL_CS        == 0
TT_MS_ID_UNICODE_CS       == 1
TT_ISO_ID_7BIT_ASCII      == 0
TT_ISO_ID_10646           == 1
TT_ISO_ID_8859_1          == 2
TT_MAC_ID_ROMAN           == 0
AnyEncoding               == -1      \* the -1 try_charmap is given for "any"
PrivateUseArea            == 61440   \* 0xf000

\* A charmap of a font file: its platform, its encoding, and whether
\* FT_Set_Charmap accepts it.
Charmaps ==
  [platform_id : TT_PLATFORM_APPLE_UNICODE..TT_PLATFORM_MICROSOFT,
   encoding_id : TT_ISO_ID_7BIT_ASCII..TT_ISO_ID_8859_1,
   settable : BOOLEAN]

RECURSIVE SeqsUpTo(_, _)
SeqsUpTo(S, n) ==
  IF n = 0 THEN { << >> }
  ELSE LET shorter == SeqsUpTo(S, n - 1)
       IN  shorter \cup { Append(q, x) : q \in shorter, x \in S }

\* The font files: a charmap table and the charmap FT_Select_Charmap selects
\* for ft_encoding_unicode (0: it reports an error).
FontFiles ==
  UNION { [charmaps : {t}, unicode : 0..Len(t)] : t \in SeqsUpTo(Charmaps, MaxCharmaps) }

\* What FT_Get_First_Char answers: gindex is 0, and charcode too, when the
\* charmap has no character.
FirstChars ==
  { [charcode |-> 0, gindex |-> 0], [charcode |-> 32, gindex |-> 3],
    [charcode |-> PrivateUseArea - 1, gindex |-> 1],
    [charcode |-> PrivateUseArea, gindex |-> 1],
    [charcode |-> PrivateUseArea + 32, gindex |-> 3] }

\* The FT_Face FT_New_Face makes of a font file; charmap is the position of the
\* active charmap in charmaps, 0 for none.
NewFace(file) ==
  [charmaps |-> file.charmaps, unicode |-> file.unicode, charmap |-> 0]

\* FT_Select_Charmap(face, ft_encoding_unicode): the face afterwards, and the
\* error.
FT_Select_Charmap(face) ==
  IF face.unicode = 0 THEN [face |-> face, error |-> TRUE]
  ELSE [face |-> [face EXCEPT !.charmap = face.unicode], error |-> FALSE]

\* FT_Set_Charmap(face, face->charmaps[idx]): the face afterwards, and the error.
FT_Set_Charmap(face, idx) ==
  IF face.charmaps[idx].settable
    THEN [face |-> [face EXCEPT !.charmap = idx], error |-> FALSE]
    ELSE [face |-> face, error |-> TRUE]

\* Variant of is_windows_symbol_font that does not look at the encoding.
is_windows_symbol_font_anyencoding(face, first) ==
  IF face.charmaps[face.charmap].platform_id # TT_PLATFORM_MICROSOFT THEN FALSE
  ELSE IF first.gindex = 0 \/ first.charcode < PrivateUseArea THEN FALSE
  ELSE TRUE

\* FontCache::is_windows_symbol_font; first is what FT_Get_First_Char answers.
is_windows_symbol_font(face, first) ==
  IF face.charmaps[face.charmap].platform_id # TT_PLATFORM_MICROSOFT THEN FALSE
  ELSE IF face.charmaps[face.charmap].encoding_id # TT_MS_ID_SYMBOL_CS THEN FALSE
  ELSE IF first.gindex = 0 \/ first.charcode < PrivateUseArea THEN FALSE
  ELSE TRUE

\* Variant of the loop of try_charmap that gives up at the first charmap
\* FT_Set_Charmap refuses.
RECURSIVE TryFrom_giveup(_, _, _, _, _, _)
TryFrom_giveup(face, platform_id, encoding_id, first, idx, attempts) ==
  IF idx > Len(face.charmaps)
    THEN [ok |-> FALSE, face |-> face, attempts |-> attempts, symbol |-> FALSE]
  ELSE IF /\ face.charmaps[idx].platform_id = platform_id
          /\ (encoding_id < 0 \/ face.charmaps[idx].encoding_id = encoding_id)
    THEN LET set == FT_Set_Charmap(face, idx)
         IN  IF ~set.error
               THEN [ok |-> TRUE, face |-> set.face,
                     attempts |-> Append(attempts, idx),
                     symbol |-> is_windows_symbol_font(set.face, first)]
               ELSE [ok |-> FALSE, face |-> face,
                     attempts |-> Append(attempts, idx), symbol |-> FALSE]
  ELSE TryFrom_giveup(face, platform_id, encoding_id, first, idx + 1, attempts)

\* The loop of try_charmap from position idx on; attempts are the positions
\* FT_Set_Charmap was called with so far, symbol is what is_windows_symbol_font
\* answered.
RECURSIVE TryFrom(_, _, _, _, _, _)
TryFrom(face, platform_id, encoding_id, first, idx, attempts) ==
  IF idx > Len(face.charmaps)
    THEN [ok |-> FALSE, face |-> face, attempts |-> attempts, symbol |-> FALSE]
  ELSE IF /\ face.charmaps[idx].platform_id = platform_id
          /\ (encoding_id < 0 \/ face.charmaps[idx].encoding_id = encoding_id)
    THEN LET set == FT_Set_Charmap(face, idx)
         IN  IF ~set.error
               THEN [ok |-> TRUE, face |-> set.face,
                     attempts |-> Append(attempts, idx),
                     symbol |-> is_windows_symbol_font(set.face, first)]
               ELSE TryFrom(face, platform_id, encoding_id, first, idx + 1,
                            Append(attempts, idx))
  ELSE TryFrom(face, platform_id, encoding_id, first, idx + 1, attempts)

\* FontCache::try_charmap
try_charmap(face, platform_id, encoding_id, first) ==
  TryFrom(face, platform_id, encoding_id, first, 1, << >>)

\* Variant of the fallback chain with the symbol charmap tried before the
\* Apple Unicode ones.
CharmapSteps_symbolfirst ==
  << [platform_id |-> TT_PLATFORM_MICROSOFT, encoding_id |-> TT_MS_ID_UNICODE_CS],
     [platform_id |-> TT_PLATFORM_ISO, encoding_id |-> TT_ISO_ID_10646],
     [platform_id |-> TT_PLATFORM_MICROSOFT, encoding_id |-> TT_MS_ID_SYMBOL_CS],
     [platform_id |-> TT_PLATFORM_APPLE_UNICODE, encoding_id |-> AnyEncoding],
     [platform_id |-> TT_PLATFORM_MACINTOSH, encoding_id |-> TT_MAC_ID_ROMAN],
     [platform_id |-> TT_PLATFORM_ISO, encoding_id |-> TT_ISO_ID_8859_1],
     [platform_id |-> TT_PLATFORM_ISO, encoding_id |-> TT_ISO_ID_7BIT_ASCII] >>

\* The try_charmap calls of find_face_fontconfig, in their order.
CharmapSteps ==
  << [platform_id |-> TT_PLATFORM_MICROSOFT, encoding_id |-> TT_MS_ID_UNICODE_CS],
     [platform_id |-> TT_PLATFORM_ISO, encoding_id |-> TT_ISO_ID_10646],
     [platform_id |-> TT_PLATFORM_APPLE_UNICODE, encoding_id |-> AnyEncoding],
     [platform_id |-> TT_PLATFORM_MICROSOFT, encoding_id |-> TT_MS_ID_SYMBOL_CS],
     [platform_id |-> TT_PLATFORM_MACINTOSH, encoding_id |-> TT_MAC_ID_ROMAN],
     [platform_id |-> TT_PLATFORM_ISO, encoding_id |-> TT_ISO_ID_8859_1],
     [platform_id |-> TT_PLATFORM_ISO, encoding_id |-> TT_ISO_ID_7BIT_ASCII] >>

\* The chain of "if (!charmap_set) charmap_set = try_charmap(...)" from the
\* k-th call on; tried are the calls made so far.
RECURSIVE TrySteps(_, _, _, _)
TrySteps(face, first, k, tried) ==
  IF k > Len(CharmapSteps)
    THEN [face |-> face, charmap_set |-> FALSE, tried |-> tried,
          attempts |-> << >>, symbol |-> FALSE]
  ELSE LET r == try_charmap(face, CharmapSteps[k].platform_id,
                            CharmapSteps[k].encoding_id, first)
       IN  IF r.ok
             THEN [face |-> r.face, charmap_set |-> TRUE,
                   tried |-> Append(tried, k), attempts |-> r.attempts,
                   symbol |-> r.symbol]
             ELSE TrySteps(face, first, k + 1, Append(tried, k))

NoSel ==
  [done |-> FALSE, id |-> 0, charmap |-> 0, unicode |-> FALSE, tried |-> << >>,
   attempts |-> << >>, symbol |-> FALSE, warned |-> FALSE]

\* The charmap selection of find_face_fontconfig: the active charmap it leaves,
\* whether FT_Select_Charmap did it, the try_charmap calls made, and whether the
\* warning "Could not select a char map" is logged.
select_charmap(face, first, id) ==
  LET u == FT_Select_Charmap(face)
  IN  IF ~u.error
        THEN [done |-> TRUE, id |-> id, charmap |-> u.face.charmap,
              unicode |-> TRUE, tried |-> << >>, attempts |-> << >>,
              symbol |-> FALSE, warned |-> FALSE]
        ELSE LET r == TrySteps(u.face, first, 1, << >>)
             IN  [done |-> TRUE, id |-> id, charmap |-> r.face.charmap,
                  unicode |-> FALSE, tried |-> r.tried, attempts |-> r.attempts,
                  symbol |-> r.symbol, warned |-> ~r.charmap_set]

\* Variant of find_face_fontconfig that returns no face when no charmap could
\* be selected.
find_face_fontconfig_charmap_strict(font, outcome, lib, id, file, first) ==
  LET face == find_face_fontconfig(font, outcome, lib, id)
  IN  IF face = NullFace THEN [face |-> NullFace, sel |-> NoSel]
      ELSE LET chosen == select_charmap(NewFace(file), first, id)
           IN  [face |-> IF chosen.warned THEN NullFace ELSE face,
                sel |-> chosen]

\* FontCache::find_face_fontconfig with its charmap selection: the face it
\* returns and the selection made for it.
find_face_fontconfig_charmap(font, outcome, lib, id, file, first) ==
  LET face == find_face_fontconfig(font, outcome, lib, id)
  IN  IF face = NullFace THEN [face |-> NullFace, sel |-> NoSel]
      ELSE [face |-> face, sel |-> select_charmap(NewFace(file), first, id)]

\* --------------------------------------------------------------- ownership
\* std::make_shared: the new FontFace has one owner, the local FontFacePtr.
make_shared(h, face) == [h EXCEPT !.count[face.id] = 1]

\* A copy of a FontFacePtr is made.
Acquire(h, face) == [h EXCEPT !.count[face.id] = @ + 1]

\* Variant of Release that destroys the FontFace whoever else holds it.
Release_force(h, face) ==
  [count |-> [h.count EXCEPT ![face.id] = @ - 1],
   destroyed |-> h.destroyed \cup {face.id}]

\* A FontFacePtr is destroyed or assigned over: the FontFace is destroyed with
\* its last owner.
Release(h, face) ==
  [count |-> [h.count EXCEPT ![face.id] = @ - 1],
   destroyed |-> IF h.count[face.id] = 1 THEN h.destroyed \cup {face.id}
                 ELSE h.destroyed]

\* FontCache::check_cleanup: the local copy of the entry's FontFacePtr, the
\* erase, and the end of the copy's scope.
check_cleanup_owners(h, c) ==
  IF Len(c) < MAX_NR_OF_CACHE_ENTRIES THEN h
  ELSE LET face == c[ScanMin(c, 1, 1)].face
       IN  Release(Release(Acquire(h, face), face), face)

\* FontCache::get_font: the owners after the call; face is what find_face
\* returns when it is called, and keep tells whether the caller keeps the
\* FontFacePtr returned.
get_font_owners(h, c, font, face, keep) ==
  LET it == CacheFind(c, font)
      returned(h1, f) == IF keep THEN h1 ELSE Release(h1, f)
  IN  IF it = 0
        THEN IF face = NullFace THEN h
             ELSE returned(Acquire(check_cleanup_owners(make_shared(h, face), c),
                                   face), face)
        ELSE returned(Release(Acquire(Acquire(h, c[it].face), c[it].face),
                              c[it].face), c[it].face)

\* FontCache::clear: every entry's FontFacePtr is destroyed.
RECURSIVE clear_owners(_, _)
clear_owners(h, c) ==
  IF c = << >> THEN h ELSE clear_owners(Release(h, Head(c).face), Tail(c))

\* ----------------------------------------------------------------- history
NoCall == [op |-> "none", font |-> NoKey, ret |-> NullFace, resolved |-> FALSE]

Idle == [phase |-> "idle", k1 |-> NoKey, k2 |-> NoKey]

DistinctTs(c) == \A i, j \in 1..Len(c) : i # j => c[i].ts # c[j].ts

\* The position of the entry with the smallest timestamp among those whose key
\* is not k (DistinctTs(c) and two entries at least are assumed).
OldestBut(c, k) ==
  CHOOSE i \in 1..Len(c) :
    /\ c[i].key # k
    /\ \A j \in 1..Len(c) : c[j].key # k => c[i].ts <= c[j].ts

\* A hit on font at time t in cache c is the re-access of the oldest entry of a
\* full cache with timestamps t1 < t2 < ... < tN, all before t.
IsReaccess(c, font, t) ==
  /\ Len(c) = MAX_NR_OF_CACHE_ENTRIES
  /\ Len(c) >= 2
  /\ DistinctTs(c)
  /\ \E i \in 1..Len(c) :
       /\ c[i].key = font
       /\ \A j \in 1..Len(c) : c[i].ts <= c[j].ts
  /\ \A j \in 1..Len(c) : c[j].ts < t

\* ----------------------------------------------------------------- actions
NoFile == [charmaps |-> << >>, unicode |-> 0]

NoCmp == [done |-> FALSE, a |-> << >>, b |-> << >>, lt |-> FALSE, gt |-> FALSE]

NoHeap == [count |-> [id \in 1..MaxFaces |-> 0], destroyed |-> {}]

NoCharmaps == fontfile = NoFile /\ sel = NoSel
NoOwners == heap = NoHeap /\ handles = {}

Threads == {1, 2}

NotCalling ==
  [pc |-> "idle", font |-> NoKey, face |-> NullFace, hit |-> FALSE,
   ret |-> NullFace, at |-> 0]

NoThreads == thread = [t \in Threads |-> NotCalling] /\ atomic = TRUE

InitExtra ==
  /\ NoCharmaps
  /\ cmp = NoCmp
  /\ NoOwners
  /\ NoThreads

Init ==
  /\ \E fcOk, ftOk \in BOOLEAN :
       LET self == FontCacheCtor(fcOk, ftOk)
       IN  /\ init_ok = self.init_ok
           /\ config = self.config
           /\ library = self.library
  /\ cache = << >>
  /\ now = 0
  /\ nextFace = 0
  /\ last = NoCall
  /\ accessOrder = << >>
  /\ inserted = 0
  /\ reaccess = Idle
  /\ InitExtra

\* A call of get_font(font); outcome is what the engines answer when the call
\* comes to resolve the font.  A hit asks the engines nothing, so a hit is
\* taken once, with the outcome "loaded", instead of once per outcome.
get_font_step(font, outcome) ==
  \E r \in { get_font_result(cache, font, outcome, library, now, nextFace + 1) } :
  \E loaded \in { r.resolved /\ r.ret # NullFace } :
      /\ ~r.resolved => outcome = "loaded"
      /\ loaded => nextFace < MaxFaces
      /\ cache' = r.cache
      /\ nextFace' = IF loaded THEN nextFace + 1 ELSE nextFace
      /\ last' = [op |-> "get_font", font |-> font, ret |-> r.ret,
                  resolved |-> r.resolved]
      /\ accessOrder' =
           IF r.ret = NullFace THEN accessOrder
           ELSE SelectSeq(accessOrder,
                          LAMBDA k : k \in Keys(r.cache) /\ k # font) \o << font >>
      /\ inserted' =
           IF loaded /\ inserted <= MAX_NR_OF_CACHE_ENTRIES
             THEN inserted + 1 ELSE inserted
      /\ reaccess' =
           IF ~r.resolved
             THEN IF IsReaccess(cache, font, now)
                    THEN [phase |-> "armed", k1 |-> font,
                          k2 |-> cache[OldestBut(cache, font)].key]
                    ELSE Idle
           ELSE IF loaded
             THEN IF reaccess.phase = "armed"
                    THEN [reaccess EXCEPT !.phase = "fired"]
                    ELSE Idle
           ELSE IF reaccess.phase = "armed" THEN reaccess ELSE Idle
      /\ UNCHANGED << init_ok, config, library, now >>

get_font(font, outcome) == get_font_step(font, outcome) /\ UNCHANGED extra

\* A call of clear().
clear_step ==
  /\ cache' = clear_result(cache)
  /\ last' = [NoCall EXCEPT !.op = "clear"]
  /\ accessOrder' = << >>
  /\ inserted' = 0
  /\ reaccess' = Idle
  /\ UNCHANGED << init_ok, config, library, now, nextFace >>

clear == clear_step /\ UNCHANGED extra

\* The clock of time(nullptr) moves on.
Tick ==
  /\ now < MaxTime
  /\ now' = now + 1
  /\ UNCHANGED << init_ok, config, library, cache, nextFace, last, accessOrder,
                  inserted, reaccess >>
  /\ UNCHANGED extra

Next ==
  \/ \E font \in Queries, outcome \in Outcomes : get_font(font, outcome)
  \/ clear
  \/ Tick

Spec == Init /\ [][Next]_vars

\* ------------------------------------------------- resolution with charmaps
\* The cache after a successful construction.
Constructed ==
  /\ LET self == FontCacheCtor(TRUE, TRUE)
     IN  /\ init_ok = self.init_ok
         /\ config = self.config
         /\ library = self.library
  /\ cache = << >>
  /\ now = 0
  /\ nextFace = 0
  /\ last = NoCall
  /\ accessOrder = << >>
  /\ inserted = 0
  /\ reaccess = Idle

\* One font file that the matching engine answers every query with.
InitCharmap ==
  /\ Constructed
  /\ fontfile \in FontFiles
  /\ sel = NoSel
  /\ cmp = NoCmp
  /\ NoOwners
  /\ NoThreads

\* A call of get_font(font) whose resolution, when it comes to it, loads
\* fontfile and selects a charmap of it.
get_font_charmap(font, outcome, first) ==
  \E rf \in { find_face_fontconfig_charmap(Lookup(font), outcome, library,
                                           nextFace + 1, fontfile, first) } :
  \E r \in { get_font_core(cache, font, rf.face, now) } :
  \E loaded \in { r.resolved /\ r.ret # NullFace } :
      /\ ~r.resolved => outcome = "loaded" /\ first.gindex = 0
      /\ r.resolved /\ ~rf.sel.done => first.gindex = 0
      /\ loaded => nextFace < MaxFaces
      /\ cache' = r.cache
      /\ nextFace' = IF loaded THEN nextFace + 1 ELSE nextFace
      /\ last' = [op |-> "get_font", font |-> font, ret |-> r.ret,
                  resolved |-> r.resolved]
      /\ sel' = IF r.resolved /\ rf.sel.done THEN rf.sel ELSE sel
      /\ UNCHANGED << init_ok, config, library, now, accessOrder, inserted,
                      reaccess, fontfile, cmp >>
      /\ UNCHANGED ownvars
      /\ UNCHANGED racevars

CharmapQueries == { DEFAULT_FONT }

NextCharmap ==
  \E font \in CharmapQueries, outcome \in Outcomes, first \in FirstChars :
    get_font_charmap(font, outcome, first)

SpecCharmap == InitCharmap /\ [][NextCharmap]_vars

\* ------------------------------------------------------------------ claims
\* A step that is a call of get_font: the clock stands and the call is recorded.
GetFontStep == now' = now /\ last'.op = "get_font"

\* The keys a step removes from the cache.
Evicted == Keys(cache) \ Keys(cache')

\* C1: a query padded with whitespace and the trimmed query use one cache key:
\* the cache never holds two entries whose keys are equal after trimming.
C1_PaddedAndTrimmedShareEntry ==
  \A i, j \in 1..Len(cache) :
    Trim(cache[i].key) = Trim(cache[j].key) => i = j

\* C2: the empty query, a whitespace-only query and the default query use one
\* cache key: the cache holds at most one entry whose key is one of them.
C2_DefaultSharesEntry ==
  Cardinality({ i \in 1..Len(cache) :
                  \/ Trim(cache[i].key) = << >>
                  \/ cache[i].key = DEFAULT_FONT }) <= 1

\* C3: the cache never holds more than MAX_NR_OF_CACHE_ENTRIES entries, and
\* once MAX_NR_OF_CACHE_ENTRIES + 1 keys have been inserted into an empty cache
\* it holds exactly MAX_NR_OF_CACHE_ENTRIES.
C3_BoundedSize ==
  /\ Len(cache) <= MAX_NR_OF_CACHE_ENTRIES
  /\ inserted >= MAX_NR_OF_CACHE_ENTRIES + 1 =>
       Len(cache) = MAX_NR_OF_CACHE_ENTRIES
  /\ inserted <= MAX_NR_OF_CACHE_ENTRIES => Len(cache) = inserted

C3_Witness ==
  /\ inserted = MAX_NR_OF_CACHE_ENTRIES + 1
  /\ Len(cache) = MAX_NR_OF_CACHE_ENTRIES

\* C4, as claimed: the key an insertion evicts is the least recently accessed
\* one, also when accesses fall into one clock tick.
C4_EvictsLeastRecentlyAccessed ==
  [][GetFontStep /\ Evicted # {} => Evicted = { Head(accessOrder) }]_vars

\* C4, amended: the entry an insertion evicts has the smallest timestamp of the
\* cache, and it is the least recently accessed one when no two entries of the
\* cache carry the same timestamp.
C4_EvictsSmallestTimestamp ==
  [][GetFontStep /\ Evicted # {} =>
       \E i \in 1..Len(cache) :
         /\ Evicted = { cache[i].key }
         /\ \A j \in 1..Len(cache) : cache[i].ts <= cache[j].ts
         /\ DistinctTs(cache) => cache[i].key = Head(accessOrder)]_vars

C4_Witness ==
  /\ last.op = "get_font" /\ last.resolved /\ last.ret # NullFace
  /\ inserted > MAX_NR_OF_CACHE_ENTRIES
  /\ DistinctTs(cache)

\* C5: in a full cache with timestamps t1 < t2 < ... < tN, when the entry of t1
\* is looked up again later than tN and then a miss inserts a new key, the
\* entry of t2 is evicted and the entry looked up again stays.
C5_ReaccessedEntrySurvives ==
  reaccess.phase = "fired" =>
    /\ reaccess.k2 \notin Keys(cache)
    /\ reaccess.k1 \in Keys(cache)
    /\ last.font \in Keys(cache)
    /\ Len(cache) = MAX_NR_OF_CACHE_ENTRIES

C5_Witness == reaccess.phase = "fired" /\ last.resolved

\* C6: a key has one entry at most; after a successful get_font the entry of its
\* key carries the time of the call, a hit adds no entry, and the timestamp of a
\* key that stays in the cache never decreases.
C6_OneEntryPerKeyRefreshed ==
  [][/\ \A i, j \in 1..Len(cache') : cache'[i].key = cache'[j].key => i = j
     /\ GetFontStep /\ last'.ret # NullFace =>
          /\ \E i \in 1..Len(cache') :
               cache'[i].key = last'.font /\ cache'[i].ts = now'
          /\ ~last'.resolved => Len(cache') = Len(cache)
     /\ \A i \in 1..Len(cache), j \in 1..Len(cache') :
          cache[i].key = cache'[j].key => cache[i].ts <= cache'[j].ts]_vars

C6_Witness ==
  /\ last.op = "get_font" /\ ~last.resolved
  /\ now > 0
  /\ \E i \in 1..Len(cache) : cache[i].key = last.font /\ cache[i].ts = now

\* C7: a get_font whose resolution fails returns no face and leaves the cache as
\* it was, full or not; every entry of the cache holds a face.
C7_FailureNotCached ==
  [][/\ GetFontStep /\ last'.ret = NullFace =>
          cache' = cache /\ last'.resolved /\ nextFace' = nextFace
     /\ \A i \in 1..Len(cache') : cache'[i].face # NullFace]_vars

C7_Witness ==
  /\ last.op = "get_font" /\ last.ret = NullFace
  /\ Len(cache) = MAX_NR_OF_CACHE_ENTRIES

\* C8, as claimed: when an engine failed to initialize, is_init_ok() is false
\* and get_font returns no face, without resolving and without changing the
\* cache.
C8_InitFailureSkipsResolution ==
  /\ (config = Null \/ library = Null) => ~is_init_ok
  /\ ~is_init_ok /\ last.op = "get_font" =>
       last.ret = NullFace /\ ~last.resolved /\ cache = << >>

\* C8, amended: when an engine failed to initialize, is_init_ok() is false and
\* every get_font returns no face and leaves the cache empty; the resolution is
\* attempted all the same.
C8_InitFailureReturnsNotFound ==
  /\ (config = Null \/ library = Null) <=> ~is_init_ok
  /\ ~is_init_ok => cache = << >> /\ nextFace = 0
  /\ ~is_init_ok /\ last.op = "get_font" =>
       last.ret = NullFace /\ last.resolved

C8_Witness ==
  ~is_init_ok /\ config # Null /\ last.op = "get_font" /\ now > 0

\* C9: clear() leaves no entry, and clearing twice gives what clearing once
\* gives.
C9_IdempotentClear ==
  /\ Len(clear_result(cache)) = 0
  /\ clear_result(clear_result(cache)) = clear_result(cache)
  /\ last.op = "clear" => Len(cache) = 0

C9_Witness == last.op = "clear" /\ nextFace >= 2

\* C10: a get_font of a cached key does not resolve; it returns the face the
\* entry holds, which the entry still holds afterwards; and a miss stores the
\* newly loaded face it returns.
C10_HitReturnsCachedFace ==
  [][GetFontStep =>
       /\ \A i \in 1..Len(cache) :
            cache[i].key = last'.font =>
              /\ ~last'.resolved
              /\ last'.ret = cache[i].face
              /\ nextFace' = nextFace
              /\ \E j \in 1..Len(cache') :
                   cache'[j].key = last'.font /\ cache'[j].face = cache[i].face
       /\ last'.resolved /\ last'.ret # NullFace =>
            /\ \A i \in 1..Len(cache) : cache[i].face.id # last'.ret.id
            /\ \E j \in 1..Len(cache') :
                 cache'[j].key = last'.font /\ cache'[j].face = last'.ret]_vars

C10_Witness ==
  /\ last.op = "get_font" /\ ~last.resolved /\ last.ret # NullFace
  /\ nextFace >= 2
  /\ \E i \in 1..Len(cache) : cache[i].key = last.font /\ cache[i].face = last.ret

\* C14: check_cleanup removes nothing from a cache below its maximum and one
\* entry from a cache at its maximum; a get_font evicts only when it inserts a
\* newly resolved face into a full cache, then exactly one entry, chosen before
\* the insertion, so never the inserted one; a hit and a failure evict nothing.
C14_EvictionTrigger ==
  [][/\ Len(cache) < MAX_NR_OF_CACHE_ENTRIES => check_cleanup(cache) = cache
     /\ Len(cache) >= MAX_NR_OF_CACHE_ENTRIES =>
          Len(check_cleanup(cache)) = Len(cache) - 1
     /\ GetFontStep =>
          /\ Len(cache) < MAX_NR_OF_CACHE_ENTRIES => Evicted = {}
          /\ ~last'.resolved => Evicted = {}
          /\ last'.ret = NullFace => Evicted = {}
          /\ /\ last'.resolved
             /\ last'.ret # NullFace
             /\ Len(cache) = MAX_NR_OF_CACHE_ENTRIES
             => /\ Cardinality(Evicted) = 1
                /\ Len(cache') = MAX_NR_OF_CACHE_ENTRIES
          /\ last'.ret # NullFace => last'.font \in Keys(cache')]_vars

C14_Witness ==
  /\ last.op = "get_font" /\ last.resolved /\ last.ret # NullFace
  /\ inserted > MAX_NR_OF_CACHE_ENTRIES
  /\ last.font \in Keys(cache)
  /\ Len(cache) = MAX_NR_OF_CACHE_ENTRIES

\* C15: the entry an eviction removes has a timestamp less than or equal to
\* every timestamp of the cache, and it is the first entry in iteration order
\* that has this timestamp.
C15_FirstMinimumEvicted ==
  [][GetFontStep /\ Evicted # {} =>
       \E i \in 1..Len(cache) :
         /\ Evicted = { cache[i].key }
         /\ \A j \in 1..Len(cache) : cache[i].ts <= cache[j].ts
         /\ \A j \in 1..(i - 1) : cache[j].ts > cache[i].ts]_vars

\* An eviction among entries that all carry the timestamp 0.
C15_Witness ==
  /\ last.op = "get_font" /\ last.resolved /\ last.ret # NullFace
  /\ inserted > MAX_NR_OF_CACHE_ENTRIES
  /\ now = 0

\* C20: a hit changes the timestamp of the entry it hits and nothing else: the
\* number of entries, the keys, the face of every key and the timestamps of the
\* other entries stay as they were.
C20_HitFrame ==
  [][GetFontStep /\ ~last'.resolved =>
       /\ Len(cache') = Len(cache)
       /\ nextFace' = nextFace
       /\ \A i \in 1..Len(cache) :
            /\ cache'[i].key = cache[i].key
            /\ cache'[i].face = cache[i].face
            /\ cache[i].key # last'.font => cache'[i].ts = cache[i].ts
            /\ cache[i].key = last'.font => cache'[i].ts = now]_vars

C20_Witness ==
  /\ last.op = "get_font" /\ ~last.resolved
  /\ \E i, j \in 1..Len(cache) :
       /\ cache[i].key = last.font /\ cache[i].ts = now
       /\ cache[j].key # last.font /\ cache[j].ts < now


\* ------------------------------------------------------- comparing FontInfo
InitFontInfo ==
  /\ Constructed
  /\ NoCharmaps
  /\ NoOwners
  /\ NoThreads
  /\ cmp \in [done : {FALSE}, a : FontInfos, b : FontInfos, lt : {FALSE},
              gt : {FALSE}]

\* a < b and b < a are evaluated.
Compare ==
  /\ ~cmp.done
  /\ cmp' = [cmp EXCEPT !.done = TRUE, !.lt = FontInfoLess(cmp.a, cmp.b),
                        !.gt = FontInfoLess(cmp.b, cmp.a)]
  /\ UNCHANGED cachevars
  /\ UNCHANGED charmapvars
  /\ UNCHANGED ownvars
  /\ UNCHANGED racevars

NextFontInfo == Compare

SpecFontInfo == InitFontInfo /\ [][NextFontInfo]_vars

\* C19: a < b is true when the family is smaller, or else when the style is
\* smaller, or else when the file is, with no test for equal fields; so a < b
\* and b < a both hold when two fields disagree, and a < b holds although
\* (family, style, file) of a is not the smaller tuple.
C19_FontInfoOrdering ==
  cmp.done =>
    /\ cmp.lt <=> \/ KeyLess(cmp.a.family, cmp.b.family)
                  \/ KeyLess(cmp.a.style, cmp.b.style)
                  \/ KeyLess(cmp.a.file, cmp.b.file)
    /\ /\ KeyLess(cmp.a.family, cmp.b.family)
       /\ KeyLess(cmp.b.style, cmp.a.style)
       => cmp.lt /\ cmp.gt
    /\ /\ KeyLess(cmp.b.family, cmp.a.family)
       /\ KeyLess(cmp.a.style, cmp.b.style)
       => cmp.lt /\ ~FontInfoLess_lexicographic(cmp.a, cmp.b)

C19_Witness ==
  /\ cmp.done
  /\ cmp.lt
  /\ cmp.gt
  /\ ~FontInfoLess_lexicographic(cmp.a, cmp.b)
  /\ cmp.a.file = cmp.b.file

\* --------------------------------------------------------- shared ownership
InitOwn ==
  /\ Constructed
  /\ NoCharmaps
  /\ cmp = NoCmp
  /\ NoOwners
  /\ NoThreads

\* A call of get_font(font) by a caller that keeps the FontFacePtr returned,
\* unless it holds that face already, or lets it go at once.
get_font_own(font, outcome, keep) ==
  /\ get_font_step(font, outcome)
  /\ keep => last'.ret # NullFace /\ last'.ret \notin handles
  /\ heap' = get_font_owners(heap, cache, font,
                             find_face(font, outcome, library, nextFace + 1), keep)
  /\ handles' = IF keep THEN handles \cup {last'.ret} ELSE handles
  /\ UNCHANGED charmapvars
  /\ UNCHANGED cmp
  /\ UNCHANGED racevars

clear_own ==
  /\ clear_step
  /\ heap' = clear_owners(heap, cache)
  /\ UNCHANGED handles
  /\ UNCHANGED charmapvars
  /\ UNCHANGED cmp
  /\ UNCHANGED racevars

\* A caller lets go of a FontFacePtr it holds.
drop(face) ==
  /\ face \in handles
  /\ heap' = Release(heap, face)
  /\ handles' = handles \ {face}
  /\ UNCHANGED cachevars
  /\ UNCHANGED charmapvars
  /\ UNCHANGED cmp
  /\ UNCHANGED racevars

NextOwn ==
  \/ \E font \in Queries, outcome \in Outcomes, keep \in BOOLEAN :
       get_font_own(font, outcome, keep)
  \/ clear_own
  \/ \E face \in handles : drop(face)

SpecOwn == InitOwn /\ [][NextOwn]_vars

CacheFaces == { cache[i].face : i \in 1..Len(cache) }

\* C13: a FontFace is destroyed only when no cache entry and no caller holds
\* it: every FontFacePtr a caller got from get_font and still holds refers to a
\* FontFace that is not destroyed, also after eviction or clear() took the
\* face's entry away; and the use count is the number of these holders.
C13_SharedOwnership ==
  /\ \A face \in handles \cup CacheFaces : face.id \notin heap.destroyed
  /\ \A id \in 1..nextFace :
       /\ id \in heap.destroyed =>
            \A face \in handles \cup CacheFaces : face.id # id
       /\ heap.count[id] =
            Cardinality({ i \in 1..Len(cache) : cache[i].face.id = id })
              + Cardinality({ face \in handles : face.id = id })

C13_Witness ==
  /\ last.op = "get_font"
  /\ last.resolved
  /\ last.ret # NullFace
  /\ inserted > MAX_NR_OF_CACHE_ENTRIES
  /\ \E face \in handles :
       /\ face \notin CacheFaces
       /\ face.id \notin heap.destroyed
       /\ heap.count[face.id] = 1
\* ------------------------------------------------- interleaved get_font calls
\* Two threads call get_font once each.  get_font takes no lock: unless atomic,
\* the other thread runs between any two of a call's steps.  With at most two
\* keys check_cleanup never erases, so no iterator is left dangling.
RaceQueries == { << >>, DEFAULT_FONT }

InitRace ==
  /\ Constructed
  /\ NoCharmaps
  /\ cmp = NoCmp
  /\ NoOwners
  /\ thread = [t \in Threads |-> NotCalling]
  /\ atomic \in BOOLEAN

\* Variant of the lookup that misses whatever the cache holds.
lookup_result_miss(c, font) == [hit |-> FALSE, face |-> NullFace]

\* The lookup of get_font: whether cache.find(font) found an entry, and the
\* face read from it.
lookup_result(c, font) ==
  LET it == CacheFind(c, font)
  IN  IF it = 0 THEN [hit |-> FALSE, face |-> NullFace]
      ELSE [hit |-> TRUE, face |-> c[it].face]

\* Thread t enters get_font(font).
call(t, font) ==
  /\ thread[t].pc = "idle"
  /\ atomic => \A u \in Threads \ {t} : thread[u].pc \in {"idle", "done"}
  /\ thread' = [thread EXCEPT ![t].pc = "lookup", ![t].font = font]
  /\ UNCHANGED cachevars
  /\ UNCHANGED << fontfile, sel, cmp, heap, handles, atomic >>

\* cache.find(font) and the test of its result.
lookup(t) ==
  /\ thread[t].pc = "lookup"
  /\ \E r \in { lookup_result(cache, thread[t].font) } :
       thread' = [thread EXCEPT ![t].pc = IF r.hit THEN "insert" ELSE "resolve",
                                ![t].hit = r.hit, ![t].face = r.face]
  /\ UNCHANGED cachevars
  /\ UNCHANGED << fontfile, sel, cmp, heap, handles, atomic >>

\* find_face(font), and the return of a null face.
resolve(t, outcome) ==
  /\ thread[t].pc = "resolve"
  /\ \E face \in { find_face(thread[t].font, outcome, library, nextFace + 1) } :
       /\ face # NullFace => nextFace < MaxFaces
       /\ nextFace' = IF face = NullFace THEN nextFace ELSE nextFace + 1
       /\ thread' = [thread EXCEPT
                       ![t].pc = IF face = NullFace THEN "done" ELSE "cleanup",
                       ![t].face = face]
  /\ UNCHANGED << init_ok, config, library, cache, now, last, accessOrder,
                  inserted, reaccess >>
  /\ UNCHANGED << fontfile, sel, cmp, heap, handles, atomic >>

\* check_cleanup()
cleanup(t) ==
  /\ thread[t].pc = "cleanup"
  /\ cache' = check_cleanup(cache)
  /\ thread' = [thread EXCEPT ![t].pc = "insert"]
  /\ UNCHANGED << init_ok, config, library, now, nextFace, last, accessOrder,
                  inserted, reaccess >>
  /\ UNCHANGED << fontfile, sel, cmp, heap, handles, atomic >>

Latest == CHOOSE n \in { thread[t].at : t \in Threads } :
            \A t \in Threads : thread[t].at <= n

\* cache[font] = cache_entry_t(face, time(nullptr)), and the return of face.
insert(t) ==
  /\ thread[t].pc = "insert"
  /\ cache' = CacheAssign(cache, thread[t].font, thread[t].face, now)
  /\ thread' = [thread EXCEPT ![t].pc = "done", ![t].ret = thread[t].face,
                              ![t].at = Latest + 1]
  /\ UNCHANGED << init_ok, config, library, now, nextFace, last, accessOrder,
                  inserted, reaccess >>
  /\ UNCHANGED << fontfile, sel, cmp, heap, handles, atomic >>

NextRace ==
  \/ \E t \in Threads, font \in RaceQueries : call(t, font)
  \/ \E t \in Threads : lookup(t)
  \/ \E t \in Threads, outcome \in Outcomes : resolve(t, outcome)
  \/ \E t \in Threads : cleanup(t)
  \/ \E t \in Threads : insert(t)

SpecRace == InitRace /\ [][NextRace]_vars

\* The face the cache holds for a key.
Cached(font) ==
  IF CacheFind(cache, font) = 0 THEN NullFace
  ELSE cache[CacheFind(cache, font)].face

\* Two finished calls for one key that both returned a face.
BothReturned(t, u) ==
  /\ t # u
  /\ thread[t].pc = "done" /\ thread[u].pc = "done"
  /\ thread[t].font = thread[u].font
  /\ thread[t].ret # NullFace /\ thread[u].ret # NullFace

\* C18: when calls are atomic, a finished call's face is the cached one, and
\* of two calls for one key the second is a hit that returns the first one's
\* face; two calls for one key return different faces only when their steps
\* interleave: both missed, the later insert is what the cache holds, and the
\* caller of the earlier one holds a face that is not the cached one.
C18_LostUpdateOnlyWhenInterleaved ==
  /\ atomic =>
       \A t \in Threads :
         thread[t].pc = "done" /\ thread[t].ret # NullFace =>
           Cached(thread[t].font) = thread[t].ret
  /\ \A t, u \in Threads :
       BothReturned(t, u) /\ thread[t].at < thread[u].at =>
         /\ Cached(thread[t].font) = thread[u].ret
         /\ atomic => thread[u].hit /\ thread[u].ret = thread[t].ret
         /\ thread[t].ret # thread[u].ret =>
              /\ ~atomic
              /\ ~thread[t].hit /\ ~thread[u].hit
              /\ Cached(thread[t].font) # thread[t].ret

C18_Witness ==
  /\ ~atomic
  /\ BothReturned(1, 2)
  /\ thread[1].at < thread[2].at
  /\ thread[1].ret # thread[2].ret
  /\ ~thread[1].hit /\ ~thread[2].hit
  /\ Cached(thread[1].font) = thread[2].ret
  /\ Len(cache) = 1

\* ------------------------------------------------------- claims on charmaps
\* The charmaps of the font file that a step for (platform_id, encoding_id)
\* considers, and those of them FT_Set_Charmap accepts.
Matching(platform_id, encoding_id) ==
  { i \in 1..Len(fontfile.charmaps) :
      /\ fontfile.charmaps[i].platform_id = platform_id
      /\ \/ encoding_id = AnyEncoding
         \/ fontfile.charmaps[i].encoding_id = encoding_id }

Settable(platform_id, encoding_id) ==
  { i \in Matching(platform_id, encoding_id) : fontfile.charmaps[i].settable }

Least(S) == CHOOSE i \in S : \A j \in S : i <= j

RECURSIVE Ascending(_)
Ascending(S) ==
  IF S = {} THEN << >> ELSE << Least(S) >> \o Ascending(S \ {Least(S)})

\* The charmap step k of the documented order activates: 0 when it fails.
StepCharmap(k) ==
  LET of(platform_id, encoding_id) ==
        IF Settable(platform_id, encoding_id) = {} THEN 0
        ELSE Least(Settable(platform_id, encoding_id))
  IN  CASE k = 1 -> fontfile.unicode
        [] k = 2 -> of(TT_PLATFORM_MICROSOFT, TT_MS_ID_UNICODE_CS)
        [] k = 3 -> of(TT_PLATFORM_ISO, TT_ISO_ID_10646)
        [] k = 4 -> of(TT_PLATFORM_APPLE_UNICODE, AnyEncoding)
        [] k = 5 -> of(TT_PLATFORM_MICROSOFT, TT_MS_ID_SYMBOL_CS)
        [] k = 6 -> of(TT_PLATFORM_MACINTOSH, TT_MAC_ID_ROMAN)
        [] k = 7 -> of(TT_PLATFORM_ISO, TT_ISO_ID_8859_1)
        [] k = 8 -> of(TT_PLATFORM_ISO, TT_ISO_ID_7BIT_ASCII)

\* The steps of the documented order the selection recorded in sel went
\* through.
StepsMade == << 1 >> \o [i \in 1..Len(sel.tried) |-> sel.tried[i] + 1]

MacRomanOnly ==
  /\ fontfile.unicode = 0
  /\ Len(fontfile.charmaps) = 1
  /\ fontfile.charmaps[1].platform_id = TT_PLATFORM_MACINTOSH
  /\ fontfile.charmaps[1].encoding_id = TT_MAC_ID_ROMAN
  /\ fontfile.charmaps[1].settable

\* C11: the selection goes through the steps Unicode select, (Microsoft,
\* Unicode), (ISO, 10646), (Apple Unicode, any), (Microsoft, Symbol),
\* (Macintosh, Roman), (ISO, 8859-1), (ISO, 7-bit ASCII) in this order, stops
\* at the first one that succeeds and leaves that step's charmap active; a file
\* with only a Macintosh Roman charmap ends with it active.
C11_FallbackOrder ==
  sel.done =>
    LET wins == { k \in 1..8 : StepCharmap(k) # 0 }
    IN  /\ wins # {} =>
              /\ StepsMade = [k \in 1..Least(wins) |-> k]
              /\ sel.charmap = StepCharmap(Least(wins))
              /\ ~sel.warned
        /\ wins = {} =>
              /\ StepsMade = [k \in 1..8 |-> k]
              /\ sel.charmap = 0
        /\ MacRomanOnly => sel.charmap = 1 /\ StepsMade = << 1, 2, 3, 4, 5, 6 >>

C11_Witness ==
  /\ sel.done
  /\ MacRomanOnly
  /\ sel.charmap = 1
  /\ sel.tried = << 1, 2, 3, 4, 5 >>

\* C12: when the file loads and no step selects a charmap, the face is still
\* returned, with the warning logged, and get_font has cached it under the
\* key and returns it.
C12_ExhaustionNotFatal ==
  sel.done /\ sel.warned =>
    /\ sel.charmap = 0
    /\ last.op = "get_font"
    /\ last.ret # NullFace
    /\ last.ret.id = sel.id
    /\ \E i \in 1..Len(cache) :
         /\ cache[i].key = last.font
         /\ cache[i].face = last.ret

C12_Witness ==
  /\ sel.done
  /\ sel.warned
  /\ sel.tried = << 1, 2, 3, 4, 5, 6, 7 >>
  /\ Len(fontfile.charmaps) = MaxCharmaps
  /\ last.ret # NullFace
  /\ last.ret.id = sel.id
  /\ \E i \in 1..Len(cache) : cache[i].face = last.ret

\* C16: a step for (platform, encoding) offers FT_Set_Charmap the charmaps
\* with that platform and that encoding (any encoding for the wildcard) in table
\* order, succeeds with the first one accepted and makes no further attempt,
\* and fails, with the active charmap as it was, when there is none or all are
\* refused.
C16_TryCharmapStep ==
  /\ \A platform_id \in TT_PLATFORM_APPLE_UNICODE..TT_PLATFORM_MICROSOFT :
     \A encoding_id \in AnyEncoding..TT_ISO_ID_8859_1 :
     \A active \in { Len(fontfile.charmaps) } :
     \A face \in { [NewFace(fontfile) EXCEPT !.charmap = active] } :
     \A r \in { try_charmap(face, platform_id, encoding_id,
                             [charcode |-> 0, gindex |-> 0]) } :
     \A M \in { Matching(platform_id, encoding_id) } :
     \A S \in { Settable(platform_id, encoding_id) } :
           /\ r.ok <=> S # {}
           /\ r.ok =>
                /\ r.face.charmap = Least(S)
                /\ r.attempts = Ascending({ i \in M : i <= Least(S) })
           /\ ~r.ok =>
                /\ r.face = face
                /\ r.attempts = Ascending(M)
  /\ sel.done /\ ~sel.unicode /\ ~sel.warned =>
       /\ sel.attempts # << >>
       /\ sel.charmap = sel.attempts[Len(sel.attempts)]
       /\ fontfile.charmaps[sel.charmap].settable
       /\ \A n \in 1..(Len(sel.attempts) - 1) :
            ~fontfile.charmaps[sel.attempts[n]].settable

C16_Witness ==
  /\ sel.done
  /\ sel.tried = << 1, 2, 3 >>
  /\ sel.attempts = << 1, 2 >>
  /\ sel.charmap = 2
  /\ fontfile.charmaps[1].encoding_id # fontfile.charmaps[2].encoding_id

\* C17: is_windows_symbol_font is true exactly when the active charmap is
\* (Microsoft, Symbol) and the first character code is at least 0xF000; the
\* selection made is the same whatever it answers.
C17_SymbolFontDetection ==
  /\ \A first \in FirstChars :
     \A active \in 1..Len(fontfile.charmaps) :
       LET face == [NewFace(fontfile) EXCEPT !.charmap = active]
       IN  is_windows_symbol_font(face, first) <=>
             /\ fontfile.charmaps[active].platform_id = TT_PLATFORM_MICROSOFT
             /\ fontfile.charmaps[active].encoding_id = TT_MS_ID_SYMBOL_CS
             /\ first.gindex # 0
             /\ first.charcode >= PrivateUseArea
  /\ \A first \in FirstChars :
       LET chosen == select_charmap(NewFace(fontfile), first, sel.id)
       IN  sel.done => [chosen EXCEPT !.symbol = sel.symbol] = sel
  /\ sel.symbol =>
       /\ ~sel.warned
       /\ fontfile.charmaps[sel.charmap].platform_id = TT_PLATFORM_MICROSOFT
       /\ fontfile.charmaps[sel.charmap].encoding_id = TT_MS_ID_SYMBOL_CS

C17_Witness ==
  /\ sel.done
  /\ sel.symbol
  /\ sel.tried = << 1, 2, 3, 4 >>
  /\ last.ret # NullFace

============================================================================
